---- MODULE Spec2Model ----
(***************************************************************************)
(* Model of deps/sleigh/arbitrary_manager.cc: the memory image adapter     *)
(* (ArbitraryLoader), the two collectors (ArbitraryAsmEmitter,             *)
(* ArbitraryPcodeEmitter) and the session manager (ArbitraryManager).      *)
(* The decoding engine (ghidra::Sleigh) is an external library; it is      *)
(* modelled by the outcomes it can produce at its callback interface.      *)
(* 64-bit addresses are scaled to arithmetic modulo AddrLimit.             *)
(***************************************************************************)
EXTENDS Integers, Sequences, FiniteSets, TLC

\* ---------------------------------------------------------------- bounds
\* scaled-down 2^64: uint64_t arithmetic is arithmetic modulo AddrLimit
AddrLimit == 4
\* number of load_region calls in one run
MaxRegions == 2
\* largest size passed to load_region
MaxRegionSize == 2
\* largest size passed to loadFill
MaxFill == 3
\* longest instruction the engine reports
MaxInsnLen == 2

Addr == 0 .. (AddrLimit - 1)
UINT64_MAX == AddrLimit - 1
U64(x) == x % AddrLimit

VARIABLES
  regions,                    \* ArbitraryLoader::regions
  min_addr,                   \* ArbitraryLoader::min_addr
  max_addr,                   \* ArbitraryLoader::max_addr
  current_translate_address,  \* ArbitraryManager::current_translate_address
  document,                   \* ArbitraryManager::document: "none" or "bound"
  started,                    \* sleigh->initialize() has run
  pcode_ops,                  \* ArbitraryPcodeEmitter::pcode_ops
  asm_emitter,                \* fields of ArbitraryAsmEmitter
  call,                       \* the last call: its arguments and what it gave back
  last_next                   \* the last decode-next call: address and length

vars == <<regions, min_addr, max_addr, current_translate_address, document, started,
          pcode_ops, asm_emitter, call, last_next>>

\* ------------------------------------------------------ memory image adapter

\* the bytes a caller hands to the k-th load_region call: every byte of every
\* region is distinct and non-zero, so a byte in a buffer names its origin
RegionData(k, size) == [i \in 1 .. size |-> 16 * k + i]

\* the buffer a caller passes to loadFill, pre-seeded with a byte that is
\* neither 0 nor a region byte
SeedBuffer(size) == [i \in 1 .. size |-> 255]

\* base with the comparison the other way round
RECURSIVE base_scan_inverted(_, _)
base_scan_inverted(k, base) ==
  IF k > Len(regions) THEN base
  ELSE base_scan_inverted(k + 1, IF regions[k].base_address > base
                                  THEN regions[k].base_address ELSE base)

\* the loop of ArbitraryLoader::base
RECURSIVE base_scan(_, _)
base_scan(k, base) ==
  IF k > Len(regions) THEN base
  ELSE base_scan(k + 1, IF regions[k].base_address < base
                         THEN regions[k].base_address ELSE base)

\* ArbitraryLoader::base
base == base_scan(1, UINT64_MAX)

\* the containment test of region_from_address, in uint64_t arithmetic
region_owns(guess, address) ==
  /\ ~(guess.base_address > address)
  /\ ~(U64(guess.base_address + guess.size) <= address)

\* the scan that keeps going after a match: the last match wins
RECURSIVE region_scan_last(_, _)
region_scan_last(k, address) ==
  IF k > Len(regions) THEN 0
  ELSE LET later == region_scan_last(k + 1, address) IN
       IF later # 0 THEN later
       ELSE IF region_owns(regions[k], address) THEN k ELSE 0

\* the loop of region_from_address
RECURSIVE region_scan(_, _)
region_scan(k, address) ==
  IF k > Len(regions) THEN 0
  ELSE IF region_owns(regions[k], address) THEN k
  ELSE region_scan(k + 1, address)

\* ArbitraryLoader::region_from_address: index of the owning region, 0 = nullptr
region_from_address(address) == region_scan(1, address)

RECURSIVE fill_loop(_, _, _, _)
RECURSIVE copy_run(_, _, _, _, _, _)
\* the while loop of loadFill
fill_loop(out, bytes_remaining, search_address, write_idx) ==
  IF ~(bytes_remaining > 0) THEN out
  ELSE LET region == region_from_address(search_address) IN
       IF region = 0
       THEN fill_loop([out EXCEPT ![write_idx + 1] = 0], bytes_remaining - 1,
                      U64(search_address + 1), write_idx + 1)
       ELSE copy_run(out, bytes_remaining, search_address, write_idx, region,
                     U64(search_address - regions[region].base_address))

\* the inner for loop of loadFill
copy_run(out, bytes_remaining, search_address, write_idx, region, i) ==
  IF i < regions[region].size /\ bytes_remaining > 0
  THEN copy_run([out EXCEPT ![write_idx + 1] = regions[region].data[i + 1]],
                bytes_remaining - 1, U64(search_address + 1), write_idx + 1,
                region, i + 1)
  ELSE fill_loop(out, bytes_remaining, search_address, write_idx)

\* loadFill without the early return
loadFill_unchecked(ptr, size, addr) == fill_loop(ptr, size, addr, 0)

\* ArbitraryLoader::loadFill: the buffer after the call
loadFill(ptr, size, addr) ==
  IF addr > max_addr THEN ptr
  ELSE fill_loop(ptr, size, addr, 0)

\* ------------------------------------------------------------- collectors

\* the InsnDesc of a call that returned none
NoDesc == [op_count |-> 0, ops |-> <<>>, size |-> 0, address |-> 0,
           insn |-> <<>>, insn_len |-> 0, body |-> <<>>, body_len |-> 0]

\* ArbitraryAsmEmitter::clear
AsmCleared == [insn_size |-> 0, address |-> 0, insn_text |-> <<>>,
               insn_text_len |-> 0, insn_body |-> <<>>, insn_body_len |-> 0]

\* the constructor of ArbitraryAsmEmitter initialises no field: the fields
\* start with whatever the allocation held, zeroes or anything else
AsmIndeterminate == [insn_size |-> UINT64_MAX, address |-> UINT64_MAX,
                     insn_text |-> <<255>>, insn_text_len |-> UINT64_MAX,
                     insn_body |-> <<255>>, insn_body_len |-> UINT64_MAX]

\* strdup: the characters before the first NUL
strdup(s) ==
  LET nul == {i \in 1 .. Len(s) : s[i] = 0} IN
  IF nul = {} THEN s
  ELSE SubSeq(s, 1, (CHOOSE i \in nul : \A j \in nul : i <= j) - 1)

\* strncpy into a char[n]: at most n characters, the rest NUL padding
strncpy(s, n) == IF Len(s) >= n THEN SubSeq(s, 1, n) ELSE strdup(s)

\* ArbitraryAsmEmitter::dump
asm_dump(emitter, addr, text, body) ==
  [emitter EXCEPT !.address = addr,
                  !.insn_text = strdup(text), !.insn_text_len = Len(text),
                  !.insn_body = strdup(body), !.insn_body_len = Len(body)]

\* the copy of one ghidra::VarnodeData into a VarnodeDesc
varnode_desc(vn) ==
  [space |-> strncpy(vn.space, 16), offset |-> vn.offset, size |-> vn.size]

\* ArbitraryPcodeEmitter::dump: one PcodeOp appended per callback; a pointer
\* that may be null is a sequence of length 0 or 1
pcode_dump(ops, op) ==
  Append(ops, [opcode |-> op.opcode,
               input_len |-> Len(op.inputs),
               inputVarnodes |-> [i \in 1 .. Len(op.inputs) |->
                                    varnode_desc(op.inputs[i])],
               output |-> [i \in 1 .. Len(op.output) |->
                             varnode_desc(op.output[i])]])

RECURSIVE pcode_dump_all(_, _, _)
\* the callbacks of one oneInstruction call, in emission order
pcode_dump_all(ops, emitted, k) ==
  IF k > Len(emitted) THEN ops
  ELSE pcode_dump_all(pcode_dump(ops, emitted[k]), emitted, k + 1)

\* ---------------------------------------------------------- decoding engine

\* an instruction of length l as the engine reports it: text, body and l - 1
\* micro-operations, all tagged with l
EngineVarnode(l, i) == [space |-> <<114, 97, 109>>, offset |-> 8 * l + i, size |-> l]

EngineOp(l, i) ==
  [opcode |-> 10 * l + i,
   inputs |-> [j \in 1 .. i |-> EngineVarnode(l, j)],
   output |-> IF i % 2 = 1 THEN <<EngineVarnode(l, 0)>> ELSE <<>>]

EngineInsn(l) ==
  [kind |-> "ok", text |-> [i \in 1 .. l |-> 64 + l],
   body |-> [i \in 1 .. (l - 1) |-> 96 + l],
   ops |-> [i \in 1 .. (l - 1) |-> EngineOp(l, i)], len |-> l]

\* what printAssembly followed by oneInstruction can do at one address:
\*   ok        both succeed
\*   bad_asm   printAssembly throws BadDataError
\*   bad_pcode printAssembly succeeds, oneInstruction throws BadDataError
\*   unimpl    printAssembly succeeds, oneInstruction throws UnimplError
EngineOutcomes ==
  {EngineInsn(l) : l \in 1 .. MaxInsnLen}
    \cup {[EngineInsn(1) EXCEPT !.kind = k, !.ops = <<>>, !.len = 0] :
            k \in {"bad_pcode", "unimpl"}}
    \cup {[kind |-> "bad_asm", text |-> <<>>, body |-> <<>>, ops |-> <<>>,
           len |-> 0]}

NoEmit == [kind |-> "none", text |-> <<>>, body |-> <<>>, ops |-> <<>>, len |-> 0]

\* ------------------------------------------------------------ session manager

NoCall == [op |-> "init", addr |-> 0, size |-> 0, ptr |-> <<>>, out |-> <<>>,
           result |-> "none", desc |-> NoDesc, engine |-> NoEmit]

\* loaded: a region was loaded before the first decode-next call
NoNext == [some |-> FALSE, addr |-> 0, len |-> 0, loaded |-> FALSE]

Init ==
  /\ regions = <<>>
  /\ min_addr = UINT64_MAX
  /\ max_addr = 0
  /\ current_translate_address = 0
  /\ document = "none"
  /\ started = FALSE
  /\ pcode_ops = <<>>
  /\ asm_emitter \in {AsmCleared, AsmIndeterminate}
  /\ call = NoCall
  /\ last_next = NoNext

\* ArbitraryLoader::load_region (through ArbitraryManager::load_data)
load_region(address, size, input_data) ==
  /\ Len(regions) < MaxRegions
  /\ regions' = Append(regions, [base_address |-> address, size |-> size,
                                 data |-> input_data])
  /\ min_addr' = IF address < min_addr THEN address ELSE min_addr
  /\ max_addr' = IF U64(address + size) > max_addr
                 THEN U64(address + size) ELSE max_addr
  /\ call' = [NoCall EXCEPT !.op = "load_region", !.addr = address,
                            !.size = size]
  /\ UNCHANGED <<current_translate_address, document, started, pcode_ops,
                 asm_emitter, last_next>>

LoadRegion ==
  \E address \in Addr, size \in 0 .. MaxRegionSize :
    load_region(address, size, RegionData(Len(regions) + 1, size))

\* the base addresses a session loads regions at: the bottom of the address
\* space, an address inside it and the top
SessionBases == {0, 1, UINT64_MAX}

\* ArbitraryManager::load_data, as a session calls it: the region sizes do not
\* matter to the session, each region has the largest size
load_data ==
  \E address \in SessionBases :
    load_region(address, MaxRegionSize,
                RegionData(Len(regions) + 1, MaxRegionSize))

\* a call of ArbitraryLoader::loadFill on a pre-seeded buffer
LoadFill ==
  \E addr \in Addr, size \in 0 .. MaxFill :
    /\ call' = [NoCall EXCEPT !.op = "loadFill", !.addr = addr, !.size = size,
                              !.ptr = SeedBuffer(size),
                              !.out = loadFill(SeedBuffer(size), size, addr)]
    /\ UNCHANGED <<regions, min_addr, max_addr, current_translate_address,
                   document, started, pcode_ops, asm_emitter, last_next>>

\* ArbitraryManager::load_specfile
load_specfile ==
  /\ document = "none"
  /\ document' = "bound"
  /\ call' = [NoCall EXCEPT !.op = "load_specfile"]
  /\ UNCHANGED <<regions, min_addr, max_addr, current_translate_address,
                 started, pcode_ops, asm_emitter, last_next>>

\* ArbitraryManager::begin
begin ==
  /\ document = "bound"
  /\ ~started
  /\ started' = TRUE
  /\ call' = [NoCall EXCEPT !.op = "begin"]
  /\ UNCHANGED <<regions, min_addr, max_addr, current_translate_address,
                 document, pcode_ops, asm_emitter, last_next>>

\* ArbitraryManager::to_insn_desc over the collectors' contents; the address
\* field of the new InsnDesc is not assigned and keeps what the allocation held
to_insn_desc(ops, emitter, allocated_address) ==
  [op_count |-> Len(ops), ops |-> ops,
   size |-> emitter.insn_size,
   address |-> allocated_address,
   insn |-> emitter.insn_text, insn_len |-> emitter.insn_text_len,
   body |-> emitter.insn_body, body_len |-> emitter.insn_body_len]

\* the collectors after printAssembly and oneInstruction ran with outcome e
asm_after(e, addr) ==
  IF e.kind = "bad_asm" THEN asm_emitter
  ELSE asm_dump(asm_emitter, addr, e.text, e.body)

pcode_after(e) ==
  IF e.kind = "ok" THEN pcode_dump_all(pcode_ops, e.ops, 1) ELSE pcode_ops

\* the address translate_next decodes at
translate_address ==
  IF current_translate_address = 0 THEN base ELSE current_translate_address

\* ArbitraryManager::translate_next; it has no handler, a failure of the
\* engine leaves it as an exception
translate_next(e) ==
  /\ started
  /\ LET address == translate_address
         with_size == [asm_after(e, address) EXCEPT !.insn_size = e.len]
         first_loaded == IF last_next.some THEN last_next.loaded
                         ELSE Len(regions) > 0
     IN
     IF e.kind = "ok"
     THEN /\ current_translate_address' = U64(address + e.len)
          /\ \E allocated_address \in Addr :
               call' = [NoCall EXCEPT
                          !.op = "translate_next", !.addr = address,
                          !.result = "desc", !.engine = e,
                          !.desc = to_insn_desc(pcode_after(e), with_size,
                                                allocated_address)]
          /\ pcode_ops' = <<>>
          /\ asm_emitter' = AsmCleared
          /\ last_next' = [some |-> TRUE, addr |-> address, len |-> e.len,
                           loaded |-> first_loaded]
     ELSE /\ current_translate_address' = address
          /\ call' = [NoCall EXCEPT
                        !.op = "translate_next", !.addr = address,
                        !.result = "exception", !.engine = e]
          /\ pcode_ops' = pcode_after(e)
          /\ asm_emitter' = asm_after(e, address)
          /\ last_next' = [some |-> TRUE, addr |-> address, len |-> 0,
                           loaded |-> first_loaded]
  /\ UNCHANGED <<regions, min_addr, max_addr, document, started>>

TranslateNext == \E e \in EngineOutcomes : translate_next(e)

\* a handler that matches none of the engine's failures
lift_insn_catches_none(kind) == FALSE

\* the handler of lift_insn: catch (ghidra::BadDataError &)
lift_insn_catches(kind) == kind \in {"bad_asm", "bad_pcode"}

\* lift_insn that advances the cursor as translate_next does
lift_insn_advancing(addr, e) ==
  /\ started
  /\ LET with_size == [asm_after(e, addr) EXCEPT !.insn_size = e.len] IN
     IF e.kind = "ok"
     THEN /\ call' = [NoCall EXCEPT
                        !.op = "lift_insn", !.addr = addr,
                        !.result = "desc", !.engine = e,
                        !.desc = [to_insn_desc(pcode_after(e), with_size,
                                               UINT64_MAX)
                                    EXCEPT !.address = addr]]
          /\ pcode_ops' = <<>>
          /\ asm_emitter' = AsmCleared
          /\ current_translate_address' = U64(addr + e.len)
     ELSE /\ call' = [NoCall EXCEPT
                        !.op = "lift_insn", !.addr = addr, !.engine = e,
                        !.result = IF lift_insn_catches(e.kind)
                                   THEN "null" ELSE "exception"]
          /\ pcode_ops' = pcode_after(e)
          /\ asm_emitter' = asm_after(e, addr)
          /\ UNCHANGED current_translate_address
  /\ UNCHANGED <<regions, min_addr, max_addr, document, started, last_next>>

\* ArbitraryManager::lift_insn; the address field of the InsnDesc is assigned
\* right after to_insn_desc, whatever the allocation held
lift_insn(addr, e) ==
  /\ started
  /\ LET with_size == [asm_after(e, addr) EXCEPT !.insn_size = e.len] IN
     IF e.kind = "ok"
     THEN /\ call' = [NoCall EXCEPT
                        !.op = "lift_insn", !.addr = addr,
                        !.result = "desc", !.engine = e,
                        !.desc = [to_insn_desc(pcode_after(e), with_size,
                                               UINT64_MAX)
                                    EXCEPT !.address = addr]]
          /\ pcode_ops' = <<>>
          /\ asm_emitter' = AsmCleared
     ELSE /\ call' = [NoCall EXCEPT
                        !.op = "lift_insn", !.addr = addr, !.engine = e,
                        !.result = IF lift_insn_catches(e.kind)
                                   THEN "null" ELSE "exception"]
          /\ pcode_ops' = pcode_after(e)
          /\ asm_emitter' = asm_after(e, addr)
  /\ UNCHANGED <<regions, min_addr, max_addr, current_translate_address,
                 document, started, last_next>>

LiftInsn == \E addr \in Addr, e \in EngineOutcomes : lift_insn(addr, e)

\* the session: regions, specification, begin, then decoding
Next ==
  \/ load_data
  \/ load_specfile
  \/ begin
  \/ TranslateNext
  \/ LiftInsn

Spec == Init /\ [][Next]_vars

\* the memory image adapter alone: regions and fill requests
NextFill == LoadRegion \/ LoadFill

SpecFill == Init /\ [][NextFill]_vars

\* ------------------------------------------------------- fill requests

\* the address of output position i (1-based) of the last fill request
FillAddr(i) == U64(call.addr + i - 1)

\* address a lies in [base, base + size), in unbounded arithmetic
Contains(r, a) == r.base_address <= a /\ a < r.base_address + r.size

\* the byte a region holds for address a
ByteAt(r, a) == r.data[a - r.base_address + 1]

NonOverlapping ==
  \A i, j \in 1 .. Len(regions) :
    i < j => ~ \E a \in Addr : Contains(regions[i], a) /\ Contains(regions[j], a)

\* the regions that pass the containment test for a, and the earliest loaded
Owners(a) == {k \in 1 .. Len(regions) : region_owns(regions[k], a)}
FirstOwner(a) ==
  IF Owners(a) = {} THEN 0
  ELSE CHOOSE k \in Owners(a) : \A m \in Owners(a) : k <= m

\* the largest base + length over the loaded regions, 0 when there is none
RECURSIVE MaxEndFrom(_)
MaxEndFrom(k) ==
  IF k > Len(regions) THEN 0
  ELSE LET end == regions[k].base_address + regions[k].size
           rest == MaxEndFrom(k + 1)
       IN IF end > rest THEN end ELSE rest
MaxEnd == MaxEndFrom(1)

\* the lowest base over the loaded regions
MinBase ==
  CHOOSE b \in {regions[k].base_address : k \in 1 .. Len(regions)} :
    \A k \in 1 .. Len(regions) : b <= regions[k].base_address

\* C1: over pairwise non-overlapping regions, a fill request that starts at or
\* below the tracked maximum writes exactly size bytes, position i holding the
\* byte of the region that contains its address and 0 when no region does.
C1_FillNonOverlapping ==
  (call.op = "loadFill" /\ NonOverlapping /\ call.addr <= max_addr) =>
    /\ Len(call.out) = call.size
    /\ \A i \in 1 .. call.size :
         LET a == FillAddr(i)
             in == {k \in 1 .. Len(regions) : Contains(regions[k], a)}
         IN IF in = {} THEN call.out[i] = 0
            ELSE \E k \in in : call.out[i] = ByteAt(regions[k], a)

\* C4: a fill request that starts above the tracked maximum address (the
\* largest base + length of the loaded regions) leaves the buffer as it was.
C4_AboveMaxUnchanged ==
  (call.op = "loadFill" /\ (call.addr > max_addr \/ call.addr > MaxEnd)) =>
    call.out = call.ptr

C4_Witness ==
  /\ call.op = "loadFill"
  /\ Len(regions) > 0
  /\ call.addr > max_addr
  /\ call.size > 0
  /\ \A i \in 1 .. call.size : call.out[i] = 255

\* C6: a fill request lying entirely below the lowest base of the loaded
\* regions returns at once and leaves the buffer as it was.
C6_BelowMinUnchanged ==
  (call.op = "loadFill" /\ Len(regions) > 0
     /\ call.addr + call.size <= min_addr) =>
    call.out = call.ptr

\* C7 as stated: the lookup is done for every byte position, the earliest
\* loaded region that owns the position's address supplies the byte.
C7_PerByteFirstMatch ==
  (call.op = "loadFill" /\ call.addr <= max_addr) =>
    \A i \in 1 .. call.size :
      LET a == FillAddr(i) IN
      call.out[i] = IF FirstOwner(a) = 0 THEN 0
                    ELSE ByteAt(regions[FirstOwner(a)], a)

\* C7, amended: the lookup is done once per copy run.  Position 0 holds the
\* byte of the earliest loaded region that owns the start address; a later
\* position holds 0 when no region owns its address, and otherwise the byte of
\* the region that was the earliest owner where the current run began, a
\* region that owns every address from there to the position.
C7_RunFirstMatch ==
  (call.op = "loadFill" /\ call.addr <= max_addr) =>
    /\ Len(call.out) = call.size
    /\ \A i \in 1 .. call.size :
         LET a == FillAddr(i) IN
         IF Owners(a) = {} THEN call.out[i] = 0
         ELSE \E j \in 1 .. i :
                LET k == FirstOwner(FillAddr(j)) IN
                /\ k # 0
                /\ \A m \in j .. i : region_owns(regions[k], FillAddr(m))
                /\ call.out[i] = ByteAt(regions[k], a)

\* an overlap where the run of a later loaded region covers an address that an
\* earlier loaded region owns
C7_Witness ==
  /\ call.op = "loadFill"
  /\ call.addr <= max_addr
  /\ \E i \in 2 .. call.size :
       /\ FirstOwner(FillAddr(i)) # 0
       /\ call.out[i] # ByteAt(regions[FirstOwner(FillAddr(i))], FillAddr(i))
       /\ call.out[i] # 0

\* C10: every byte of a loaded region whose last byte is a valid address is
\* readable: the tracked maximum covers the region, and a fill request at an
\* address of the region is served with a region byte, never refused or zero.
C10_RegionReadable ==
  /\ \A k \in 1 .. Len(regions) :
       (regions[k].size > 0
          /\ regions[k].base_address + regions[k].size <= AddrLimit) =>
         max_addr >= regions[k].base_address + regions[k].size - 1
  /\ (call.op = "loadFill" /\ call.size > 0) =>
       LET in == {k \in 1 .. Len(regions) :
                    /\ Contains(regions[k], call.addr)
                    /\ regions[k].base_address + regions[k].size <= AddrLimit}
       IN in # {} => \E k \in in : call.out[1] = ByteAt(regions[k], call.addr)

\* ------------------------------------------------------------- decoding

\* a decode-next call made in a run where a region was loaded before the first
\* (only translate_next leaves call.op = "translate_next")
DecodeNextStep ==
  /\ call'.op = "translate_next"
  /\ vars' # vars
  /\ Len(regions) > 0
  /\ last_next.some => last_next.loaded

\* C2 as stated: the first decode next decodes at the lowest base, every later
\* one at the previous decode-next address plus the length returned for it,
\* and the cursor never decreases.
C2_CursorFromLowestBase ==
  [][DecodeNextStep =>
       /\ call'.addr = IF last_next.some
                       THEN U64(last_next.addr + last_next.len)
                       ELSE MinBase
       /\ current_translate_address' >= current_translate_address]_vars

\* C2, amended: the cursor is a 64-bit value and 0 stands for "not started".
\* A decode next decodes at the previous decode-next address plus the length
\* returned for it, modulo 2^64 (the same address when that call raised);
\* when that value is 0, on the first call or after a wrap to exactly 0, it
\* decodes at the lowest base of the regions loaded at that moment.  The
\* cursor decreases only when the addition wraps past the top of the space.
C2_CursorModular ==
  [][/\ DecodeNextStep =>
          LET expected == IF last_next.some
                          THEN U64(last_next.addr + last_next.len) ELSE 0
          IN /\ call'.addr = IF expected = 0 THEN MinBase ELSE expected
             /\ current_translate_address' = U64(call'.addr + call'.engine.len)
     /\ \/ current_translate_address' >= current_translate_address
        \/ /\ call'.op = "translate_next"
           /\ call'.addr + call'.engine.len >= AddrLimit]_vars

\* a later decode next, away from the lowest base, right behind the previous
C2_Witness ==
  /\ call.op = "translate_next"
  /\ call.result = "desc"
  /\ last_next.loaded
  /\ call.addr # MinBase
  /\ call.addr # 0
  /\ current_translate_address = call.addr + call.engine.len

\* C3: decode at, on an address where the engine signals a malformed encoding,
\* gives the caller an empty result and lets no failure through.
C3_BadDataGivesEmpty ==
  (call.op = "lift_insn" /\ call.engine.kind \in {"bad_asm", "bad_pcode"}) =>
    call.result = "null" /\ call.desc = NoDesc

C3_Witness ==
  /\ call.op = "lift_insn"
  /\ call.engine.kind = "bad_pcode"
  /\ call.result = "null"
  /\ last_next.some

\* C5: decode at leaves the decode-next cursor as it was, whether it gives a
\* descriptor or an empty result, so the addresses of the decode-next calls
\* are those of the run without the decode-at calls.
C5_LiftKeepsCursor ==
  [][call'.op = "lift_insn" =>
       /\ current_translate_address' = current_translate_address
       /\ last_next' = last_next]_vars

\* a decode at between decode-next calls, at another address than the cursor
C5_Witness ==
  /\ call.op = "lift_insn"
  /\ call.result = "desc"
  /\ last_next.some
  /\ current_translate_address # 0
  /\ call.addr # current_translate_address
  /\ current_translate_address = U64(last_next.addr + last_next.len)

\* the opcodes of a sequence of micro-operations
Opcodes(ops) == [i \in 1 .. Len(ops) |-> ops[i].opcode]

\* C8: a returned descriptor carries the address the instruction was decoded
\* at, the length the engine returned, and the text, body and micro-operation
\* count collected during the call.
C8_DescriptorFilled ==
  call.result = "desc" =>
    /\ call.desc.address = call.addr
    /\ call.desc.size = call.engine.len
    /\ call.desc.insn = call.engine.text
    /\ call.desc.insn_len = Len(call.engine.text)
    /\ call.desc.body = call.engine.body
    /\ call.desc.body_len = Len(call.engine.body)
    /\ call.desc.op_count = Len(call.engine.ops)

\* C9: after a decode next or decode at that returned, with a descriptor or
\* with an empty result, both collectors are empty, and a returned descriptor
\* holds the micro-operations of that one call, in emission order.
C9_CollectorsEmpty ==
  (call.op \in {"translate_next", "lift_insn"}
     /\ call.result \in {"desc", "null"}) =>
    /\ pcode_ops = <<>>
    /\ asm_emitter = AsmCleared
    /\ call.result = "desc" =>
         Opcodes(call.desc.ops) = Opcodes(call.engine.ops)

====
